---- MODULE Spec2Model ----
(***************************************************************************)
(* B3 CheckSpecial (JavaScriptCore/b3/B3CheckSpecial.cpp): lowering of a   *)
(* checked operation to a hidden branch emitted on the hot path plus a     *)
(* late path (recovery stub) that links the failure jump, undoes the       *)
(* arithmetic and runs the stackmap generator.                             *)
(*                                                                         *)
(* Spec     : code generation of one unit (several checked instructions).  *)
(* SpecRun  : code generation of a unit with one checked instruction,      *)
(*            followed by execution of the generated code on a register    *)
(*            file.                                                        *)
(* Machine words are scaled: a 32-bit operation works modulo 2^Bits32 and  *)
(* a 64-bit operation modulo 2^Bits64; the shift immediates 31 and 63 of   *)
(* the source are kept in the emitted code and scaled when executed.       *)
(***************************************************************************)
EXTENDS Integers, Sequences, FiniteSets, TLC

VARIABLES is64Bit, insts, issued, code, latePaths, links, returned, phase,
          hotEnd, lateNext, regs, pre, stack, flags, rtpc, rtstate, exits,
          call, result, pool, requests

vars == <<is64Bit, insts, issued, code, latePaths, links, returned, phase,
          hotEnd, lateNext, regs, pre, stack, flags, rtpc, rtstate, exits,
          call, result, pool, requests>>

cgVars == <<is64Bit, insts, issued, code, latePaths, links, returned, phase,
            hotEnd, lateNext>>

\* the last query made of a CheckSpecial and its answer; the pool of
\* CheckSpecials and the requests made of it
qVars == <<call, result, pool, requests>>

rtVars == <<regs, pre, stack, flags, rtpc, rtstate, exits>>

(***************************************************************************)
(* Bounds                                                                  *)
(***************************************************************************)
\* number of checked instructions generated in one unit
MaxInsts == 2
\* scaled width of a 32-bit operation
Bits32 == 2
\* scaled width of a 64-bit operation
Bits64 == 3

(***************************************************************************)
(* Arithmetic on machine words                                             *)
(***************************************************************************)
RECURSIVE Pow2(_)
Pow2(n) == IF n = 0 THEN 1 ELSE 2 * Pow2(n - 1)

RECURSIVE BitOr(_, _)
BitOr(a, b) ==
    IF a = 0 THEN b
    ELSE IF b = 0 THEN a
    ELSE (IF (a % 2 = 1) \/ (b % 2 = 1) THEN 1 ELSE 0) + 2 * BitOr(a \div 2, b \div 2)

RECURSIVE BitAnd(_, _)
BitAnd(a, b) ==
    IF a = 0 \/ b = 0 THEN 0
    ELSE (IF (a % 2 = 1) /\ (b % 2 = 1) THEN 1 ELSE 0) + 2 * BitAnd(a \div 2, b \div 2)

\* value of a w-bit word read as a signed number
Signed(v, w) == IF v >= Pow2(w - 1) THEN v - Pow2(w) ELSE v

\* the most negative w-bit value, as a word
MinValue(w) == Pow2(w - 1)

(***************************************************************************)
(* Air opcodes and operands                                                *)
(***************************************************************************)
BranchAdd32 == "BranchAdd32"
BranchAdd64 == "BranchAdd64"
BranchSub32 == "BranchSub32"
BranchSub64 == "BranchSub64"
BranchNeg32 == "BranchNeg32"
BranchNeg64 == "BranchNeg64"
BranchMul32 == "BranchMul32"
BranchTest32 == "BranchTest32"

Opcodes == {BranchAdd32, BranchAdd64, BranchSub32, BranchSub64,
            BranchNeg32, BranchNeg64, BranchMul32, BranchTest32}

AddOpcodes == {BranchAdd32, BranchAdd64}
SubOpcodes == {BranchSub32, BranchSub64}
NegOpcodes == {BranchNeg32, BranchNeg64}
Opcodes64 == {BranchAdd64, BranchSub64, BranchNeg64}

\* scaled width of the operation an opcode (or an emitted instruction) performs
WidthOf(op) == IF op \in Opcodes64 THEN Bits64 ELSE Bits32

GPRs == {"r0", "r1", "r2"}
ResConds == {"Overflow", "Zero", "NonZero"}

\* register assignments of the hidden branch's register operands, one per
\* aliasing pattern (registers named in order of first use)
RegLists1 == {<<"r0">>}
RegLists2 == {<<"r0", "r0">>, <<"r0", "r1">>}
RegLists3 == {<<"r0", "r0", "r0">>, <<"r0", "r0", "r1">>, <<"r0", "r1", "r0">>,
              <<"r0", "r1", "r1">>, <<"r0", "r1", "r2">>}

RegListsOf(op) ==
    IF op \in AddOpcodes THEN RegLists2 \cup RegLists3
    ELSE IF op \in SubOpcodes THEN RegLists2
    ELSE IF op \in NegOpcodes THEN RegLists1
    ELSE IF op = BranchMul32 THEN RegLists3
    ELSE RegLists2

\* the extra (stackmap) operands that follow the hidden branch's operands
ExtraArgLists == {<<>>, <<"stk0">>, <<"r2">>}

\* A CheckSpecial is (m_checkKind, m_numCheckArgs); an Inst using it has
\* args = <<special, hidden-branch args..., stackmap args...>>, where the
\* first hidden-branch arg is the result condition.
MkInst(op, cond, rl, extra) ==
    [checkKind |-> op, numCheckArgs |-> 1 + Len(rl),
     args |-> <<"special", cond>> \o rl \o extra]

\* every shape of checked instruction, under every result condition
CheckedInsts ==
    UNION {{MkInst(op, cond, rl, extra) :
                cond \in ResConds, rl \in RegListsOf(op), extra \in ExtraArgLists} :
           op \in Opcodes}

\* checked instructions as the lowering of CheckAdd/CheckSub/CheckMul/Check
\* builds them: arithmetic branches test Overflow, a plain Check tests NonZero
LoweredInsts ==
    {i \in CheckedInsts :
        /\ i.args[2] = (IF i.checkKind = BranchTest32 THEN "NonZero" ELSE "Overflow")
        /\ Len(i.args) = 1 + i.numCheckArgs + 1
        /\ i.args[Len(i.args)] = "stk0"}

(***************************************************************************)
(* Emitted machine code: a sequence of instruction records                 *)
(***************************************************************************)
Ins(k, src, dst, imm) ==
    [k |-> k, src |-> src, dst |-> dst, imm |-> imm, jump |-> 0, args |-> <<>>,
     reps |-> <<>>]

\* the hidden branch: arithmetic plus a jump (numbered jump) taken on args[0]
BranchIns(op, args, jump) ==
    [k |-> op, src |-> "", dst |-> "", imm |-> 0, jump |-> jump, args |-> args,
     reps |-> <<>>]

\* value->m_generator->run(jit, StackmapGenerationParams(value, reps, context))
RunGeneratorIns(value, reps) ==
    [k |-> "RunGenerator", src |-> "", dst |-> "", imm |-> 0, jump |-> value,
     args |-> <<>>, reps |-> reps]

(***************************************************************************)
(* CheckSpecial                                                            *)
(***************************************************************************)
\* C++ index i of a vector kept as a TLA+ sequence
At(v, i) == v[i + 1]

\* Inst CheckSpecial::hiddenBranch(const Inst&): m_checkKind with the
\* m_numCheckArgs operands inst.args[1 .. m_numCheckArgs]
hiddenBranch(inst) ==
    [kind |-> inst.checkKind,
     args |-> [i \in 1..inst.numCheckArgs |-> At(inst.args, (i - 1) + 1)]]

\* where an operand lives, as the recovery generator is told
ValueRepOf(arg) ==
    IF arg \in GPRs THEN [kind |-> "Register", loc |-> arg]
    ELSE [kind |-> "Stack", loc |-> arg]

\* repsImpl(context, numB3Args(inst), m_numCheckArgs + 1, inst): one ValueRep
\* per operand from index m_numCheckArgs + 1 on
repsImpl(inst) ==
    [i \in 1..(Len(inst.args) - (inst.numCheckArgs + 1)) |->
        ValueRepOf(At(inst.args, inst.numCheckArgs + 1 + (i - 1)))]

\* CCallHelpers::selectScratchGPR(valueGPR): a register other than valueGPR
selectScratchGPR(valueGPR) == IF valueGPR = "r0" THEN "r1" ELSE "r0"

\* the self-alias test without its m_numCheckArgs == 3 disjunct
IsSelfAliasedAdd_FourOnly(numCheckArgs, args) ==
    numCheckArgs = 4 /\ At(args, 1) = At(args, 2) /\ At(args, 2) = At(args, 3)

\* the self-aliased add of the late path's switch
IsSelfAliasedAdd(numCheckArgs, args) ==
    \/ (numCheckArgs = 4 /\ At(args, 1) = At(args, 2) /\ At(args, 2) = At(args, 3))
    \/ (numCheckArgs = 3 /\ At(args, 1) = At(args, 2))

\* the carry sequence without the final or
CarrySequence_NoOr(sfx, signBit, valueGPR) ==
    LET scratchGPR == selectScratchGPR(valueGPR) IN
    << Ins("PushToSave", scratchGPR, "", 0),
       Ins("SetCarry", "", scratchGPR, 0),
       Ins("Lshift" \o sfx, "", scratchGPR, signBit),
       Ins("Urshift" \o sfx, "", valueGPR, 1),
       Ins("PopToRestore", "", scratchGPR, 0) >>

\* the carry sequence shifting the result right arithmetically
CarrySequence_ArithmeticShift(sfx, signBit, valueGPR) ==
    LET scratchGPR == selectScratchGPR(valueGPR) IN
    << Ins("PushToSave", scratchGPR, "", 0),
       Ins("SetCarry", "", scratchGPR, 0),
       Ins("Lshift" \o sfx, "", scratchGPR, signBit),
       Ins("Rshift" \o sfx, "", valueGPR, 1),
       Ins("Or" \o sfx, scratchGPR, valueGPR, 0),
       Ins("PopToRestore", "", scratchGPR, 0) >>

\* pushToSave; setCarry; lshift; urshift; or; popToRestore
CarrySequence(sfx, signBit, valueGPR) ==
    LET scratchGPR == selectScratchGPR(valueGPR) IN
    << Ins("PushToSave", scratchGPR, "", 0),
       Ins("SetCarry", "", scratchGPR, 0),
       Ins("Lshift" \o sfx, "", scratchGPR, signBit),
       Ins("Urshift" \o sfx, "", valueGPR, 1),
       Ins("Or" \o sfx, scratchGPR, valueGPR, 0),
       Ins("PopToRestore", "", scratchGPR, 0) >>

\* the three-operand add undo subtracting the source that aliases the destination
UndoAdd_SubtractsAliased(sfx, signBit, numCheckArgs, args) ==
    IF IsSelfAliasedAdd(numCheckArgs, args)
    THEN CarrySequence(sfx, signBit, At(args, 1))
    ELSE IF numCheckArgs = 4
    THEN IF At(args, 1) = At(args, 3)
         THEN << Ins("Sub" \o sfx, At(args, 1), At(args, 3), 0) >>
         ELSE IF At(args, 2) = At(args, 3)
         THEN << Ins("Sub" \o sfx, At(args, 2), At(args, 3), 0) >>
         ELSE << >>
    ELSE IF numCheckArgs = 3
    THEN << Ins("Sub" \o sfx, At(args, 1), At(args, 2), 0) >>
    ELSE << >>

\* the two-operand add undo with source and destination exchanged
UndoAdd_TwoOperandSwapped(sfx, signBit, numCheckArgs, args) ==
    IF IsSelfAliasedAdd(numCheckArgs, args)
    THEN CarrySequence(sfx, signBit, At(args, 1))
    ELSE IF numCheckArgs = 4
    THEN IF At(args, 1) = At(args, 3)
         THEN << Ins("Sub" \o sfx, At(args, 2), At(args, 3), 0) >>
         ELSE IF At(args, 2) = At(args, 3)
         THEN << Ins("Sub" \o sfx, At(args, 1), At(args, 3), 0) >>
         ELSE << >>
    ELSE IF numCheckArgs = 3
    THEN << Ins("Sub" \o sfx, At(args, 2), At(args, 1), 0) >>
    ELSE << >>

\* the three-operand add undo subtracting also when nothing aliases
UndoAdd_AlwaysSubtracts(sfx, signBit, numCheckArgs, args) ==
    IF IsSelfAliasedAdd(numCheckArgs, args)
    THEN CarrySequence(sfx, signBit, At(args, 1))
    ELSE IF numCheckArgs = 4
    THEN IF At(args, 1) = At(args, 3)
         THEN << Ins("Sub" \o sfx, At(args, 2), At(args, 3), 0) >>
         ELSE << Ins("Sub" \o sfx, At(args, 1), At(args, 3), 0) >>
    ELSE IF numCheckArgs = 3
    THEN << Ins("Sub" \o sfx, At(args, 1), At(args, 2), 0) >>
    ELSE << >>

\* case BranchAdd32 / case BranchAdd64 inside if constexpr (is64Bit())
UndoAdd(sfx, signBit, numCheckArgs, args) ==
    IF IsSelfAliasedAdd(numCheckArgs, args)
    THEN CarrySequence(sfx, signBit, At(args, 1))
    ELSE IF numCheckArgs = 4
    THEN IF At(args, 1) = At(args, 3)
         THEN << Ins("Sub" \o sfx, At(args, 2), At(args, 3), 0) >>
         ELSE IF At(args, 2) = At(args, 3)
         THEN << Ins("Sub" \o sfx, At(args, 1), At(args, 3), 0) >>
         ELSE << >>
    ELSE IF numCheckArgs = 3
    THEN << Ins("Sub" \o sfx, At(args, 1), At(args, 2), 0) >>
    ELSE << >>

\* the subtract undo adding the destination to the subtrahend
UndoSub_Swapped(sfx, args) == << Ins("Add" \o sfx, At(args, 2), At(args, 1), 0) >>

\* the subtract undo with a special case that emits nothing when the
\* subtrahend is the destination
UndoSub_SkipsSelfAlias(sfx, args) ==
    IF At(args, 1) = At(args, 2) THEN << >>
    ELSE << Ins("Add" \o sfx, At(args, 1), At(args, 2), 0) >>

\* case BranchSub32 / case BranchSub64: Inst(Add, nullptr, args[1], args[2])
UndoSub(sfx, args) == << Ins("Add" \o sfx, At(args, 1), At(args, 2), 0) >>

\* the negate undo emitting nothing
UndoNeg_None(sfx, args) == << >>

\* the negate undo always in its 32-bit form
UndoNeg_Narrow(sfx, args) == << Ins("Neg32", "", At(args, 1), 0) >>

\* case BranchNeg32 / case BranchNeg64: Inst(Neg, nullptr, args[1])
UndoNeg(sfx, args) == << Ins("Neg" \o sfx, "", At(args, 1), 0) >>

\* the switch with BranchSub64 emitting its undo on every platform
UndoCrashes_NotSub64(opcode, is64) ==
    opcode \in {BranchAdd32, BranchAdd64, BranchNeg64} /\ ~is64

\* the switch aborting only for the 64-bit opcodes
UndoCrashes_Add32Allowed(opcode, is64) ==
    opcode \in {BranchAdd64, BranchSub64, BranchNeg64} /\ ~is64

\* the switch with a default case that aborts
UndoCrashes_DefaultAborts(opcode, is64) ==
    \/ opcode \in {BranchAdd32, BranchAdd64, BranchSub64, BranchNeg64} /\ ~is64
    \/ opcode \notin {BranchAdd32, BranchAdd64, BranchSub32, BranchSub64,
                      BranchNeg32, BranchNeg64}

\* the cases of the switch that end in UNREACHABLE_FOR_PLATFORM()
UndoCrashes(opcode, is64) ==
    opcode \in {BranchAdd32, BranchAdd64, BranchSub64, BranchNeg64} /\ ~is64

\* the switch with a default case that negates args[1]
UndoCode_DefaultUndoes(opcode, numCheckArgs, args, is64) ==
    IF opcode = BranchAdd32
    THEN IF is64 THEN UndoAdd("32", 31, numCheckArgs, args) ELSE << >>
    ELSE IF opcode = BranchAdd64
    THEN IF is64 THEN UndoAdd("64", 63, numCheckArgs, args) ELSE << >>
    ELSE IF opcode = BranchSub32
    THEN UndoSub("32", args)
    ELSE IF opcode = BranchSub64
    THEN IF is64 THEN UndoSub("64", args) ELSE << >>
    ELSE IF opcode = BranchNeg64
    THEN IF is64 THEN UndoNeg("64", args) ELSE << >>
    ELSE UndoNeg("32", args)

\* switch (m_checkKind.opcode) of the late path: the undo code it emits
UndoCode(opcode, numCheckArgs, args, is64) ==
    IF opcode = BranchAdd32
    THEN IF is64 THEN UndoAdd("32", 31, numCheckArgs, args) ELSE << >>
    ELSE IF opcode = BranchAdd64
    THEN IF is64 THEN UndoAdd("64", 63, numCheckArgs, args) ELSE << >>
    ELSE IF opcode = BranchSub32
    THEN UndoSub("32", args)
    ELSE IF opcode = BranchSub64
    THEN IF is64 THEN UndoSub("64", args) ELSE << >>
    ELSE IF opcode = BranchNeg32
    THEN UndoNeg("32", args)
    ELSE IF opcode = BranchNeg64
    THEN IF is64 THEN UndoNeg("64", args) ELSE << >>
    ELSE << >>

(***************************************************************************)
(* Code generation of one unit                                             *)
(***************************************************************************)
\* the closure appended to context.latePaths: [=, this] captures fail, args,
\* reps and value by copy, and m_checkKind / m_numCheckArgs through this
LatePathTask(inst, fail, value) ==
    [fail |-> fail,
     checkKind |-> inst.checkKind,
     numCheckArgs |-> inst.numCheckArgs,
     args |-> [i \in 1..inst.numCheckArgs |-> At(inst.args, 1 + (i - 1))],
     reps |-> repsImpl(inst),
     value |-> value]

\* generate, returning the hidden branch's jump instead of Jump()
generate_ReturnsFail(inst, buf, late, fail) ==
    [code |-> Append(buf, BranchIns(hiddenBranch(inst).kind, hiddenBranch(inst).args, fail)),
     latePaths |-> Append(late, LatePathTask(inst, fail, fail)),
     result |-> fail]

\* generate, putting its late path at the head of the list
generate_Prepends(inst, buf, late, fail) ==
    [code |-> Append(buf, BranchIns(hiddenBranch(inst).kind, hiddenBranch(inst).args, fail)),
     latePaths |-> << LatePathTask(inst, fail, fail) >> \o late,
     result |-> 0]

\* CheckSpecial::generate(inst, jit, context): what it leaves in the code
\* buffer, in the late-path list, and what it returns (0 is the unset Jump())
generate(inst, buf, late, fail) ==
    [code |-> Append(buf, BranchIns(hiddenBranch(inst).kind, hiddenBranch(inst).args, fail)),
     latePaths |-> Append(late, LatePathTask(inst, fail, fail)),
     result |-> 0]

\* the late path without fail.link(&jit)
LatePath_NoLink(task, buf, lnk, is64) ==
    LET crash == UndoCrashes(task.checkKind, is64)
        undone == buf \o UndoCode(task.checkKind, task.numCheckArgs, task.args, is64)
        ran == Append(undone, RunGeneratorIns(task.value, task.reps))
    IN  [links |-> lnk, crashed |-> crash, code |-> IF crash THEN buf ELSE ran]

\* the late path running the generator before the undo switch
LatePath_GeneratorFirst(task, buf, lnk, is64) ==
    LET linked == [lnk EXCEPT ![task.fail] = Append(@, Len(buf) + 1)]
        crash == UndoCrashes(task.checkKind, is64)
        ran == Append(buf, RunGeneratorIns(task.value, task.reps))
        undone == ran \o UndoCode(task.checkKind, task.numCheckArgs, task.args, is64)
    IN  [links |-> linked, crashed |-> crash, code |-> IF crash THEN buf ELSE undone]

\* the late path reading the operands and reps from the instruction as it is
\* when the late path runs, instead of from its captured copies
LatePath_ReadsInst(task, buf, lnk, is64) ==
    LET cur == insts[task.fail]
        t == IF Len(cur.args) > cur.numCheckArgs
             THEN LatePathTask(cur, task.fail, task.value) ELSE task
        linked == [lnk EXCEPT ![t.fail] = Append(@, Len(buf) + 1)]
        crash == UndoCrashes(t.checkKind, is64)
        undone == buf \o UndoCode(t.checkKind, t.numCheckArgs, t.args, is64)
        ran == Append(undone, RunGeneratorIns(t.value, t.reps))
    IN  [links |-> linked, crashed |-> crash, code |-> IF crash THEN buf ELSE ran]

\* the body of the late path: fail.link(&jit); the undo switch; m_generator->run
LatePath(task, buf, lnk, is64) ==
    LET linked == [lnk EXCEPT ![task.fail] = Append(@, Len(buf) + 1)]
        crash == UndoCrashes(task.checkKind, is64)
        undone == buf \o UndoCode(task.checkKind, task.numCheckArgs, task.args, is64)
        ran == Append(undone, RunGeneratorIns(task.value, task.reps))
    IN  [links |-> linked, crashed |-> crash, code |-> IF crash THEN buf ELSE ran]

IdleRun ==
    /\ regs = [r \in GPRs |-> 0]
    /\ pre = [r \in GPRs |-> 0]
    /\ stack = << >>
    /\ flags = [carry |-> 0, overflow |-> FALSE, zero |-> FALSE]
    /\ rtpc = 0
    /\ rtstate = "idle"
    /\ exits = << >>

\* no query has been made and the pool is empty
IdleQuery ==
    /\ call = [fn |-> "none"]
    /\ result = [fn |-> "none"]
    /\ pool = << >>
    /\ requests = << >>

Init ==
    /\ is64Bit \in BOOLEAN
    /\ insts = << >>
    /\ issued = << >>
    /\ code = << >>
    /\ latePaths = << >>
    /\ links = << >>
    /\ returned = << >>
    /\ phase = "hot"
    /\ hotEnd = 0
    /\ lateNext = 1
    /\ IdleRun
    /\ IdleQuery

\* one call of generate while the unit's instructions are being emitted
GenerateInst(inst, limit) ==
    /\ phase = "hot"
    /\ Len(insts) < limit
    /\ LET g == generate(inst, code, latePaths, Len(insts) + 1) IN
        /\ code' = g.code
        /\ latePaths' = g.latePaths
        /\ returned' = Append(returned, g.result)
    /\ insts' = Append(insts, inst)
    /\ issued' = Append(issued, inst)
    /\ links' = Append(links, << >>)
    /\ UNCHANGED <<is64Bit, phase, hotEnd, lateNext>>
    /\ UNCHANGED rtVars
    /\ UNCHANGED qVars

Generate == \E inst \in LoweredInsts : GenerateInst(inst, MaxInsts)

\* every instruction of the unit has been generated; the late paths follow
EndHotPath ==
    /\ phase = "hot"
    /\ phase' = "late"
    /\ hotEnd' = Len(code)
    /\ UNCHANGED <<is64Bit, insts, issued, code, latePaths, links, returned, lateNext>>
    /\ UNCHANGED rtVars
    /\ UNCHANGED qVars

\* the next late path, in list order
RunLatePath ==
    /\ phase = "late"
    /\ lateNext <= Len(latePaths)
    /\ LET r == LatePath(latePaths[lateNext], code, links, is64Bit) IN
        /\ links' = r.links
        /\ code' = r.code
        /\ phase' = IF r.crashed THEN "crashed" ELSE "late"
    /\ lateNext' = lateNext + 1
    /\ UNCHANGED <<is64Bit, insts, issued, latePaths, returned, hotEnd>>
    /\ UNCHANGED rtVars
    /\ UNCHANGED qVars

\* all late paths have run: the unit's code is complete
FinishUnit ==
    /\ phase = "late"
    /\ lateNext > Len(latePaths)
    /\ phase' = "done"
    /\ UNCHANGED <<is64Bit, insts, issued, code, latePaths, links, returned, hotEnd, lateNext>>
    /\ UNCHANGED rtVars
    /\ UNCHANGED qVars

Next == Generate \/ EndHotPath \/ RunLatePath \/ FinishUnit

Spec == Init /\ [][Next]_vars

(***************************************************************************)
(* Execution of the generated code                                         *)
(***************************************************************************)
\* scaled width of an emitted instruction, from its 32/64 suffix
InsWidth(k) ==
    IF k \in {"Sub64", "Add64", "Neg64", "Lshift64", "Urshift64", "Rshift64", "Or64"}
            \cup Opcodes64
    THEN Bits64 ELSE Bits32

\* bit positions 31 and 63 are the sign bits of the scaled words
ShiftAmount(imm) == IF imm = 31 THEN Bits32 - 1 ELSE IF imm = 63 THEN Bits64 - 1 ELSE imm

\* the w-bit word x shifted right by n with the sign bit copied in
ArithmeticShiftRight(x, n, w) ==
    LET sign == x \div Pow2(w - 1)
        fill == IF n >= w THEN Pow2(w) - 1 ELSE Pow2(w) - Pow2(w - n)
    IN  IF n >= w THEN sign * (Pow2(w) - 1)
        ELSE (x \div Pow2(n)) + sign * fill

FitsSigned(n, w) == n >= 0 - Pow2(w - 1) /\ n <= Pow2(w - 1) - 1

\* the arithmetic of a hidden branch on operand words x (first source), y
\* (second source or destination): result word and condition flags
BranchResult(op, x, y) ==
    LET w == WidthOf(op)
        m == Pow2(w)
    IN  IF op \in AddOpcodes
        THEN [value |-> (x + y) % m, carry |-> IF x + y >= m THEN 1 ELSE 0,
              overflow |-> ~FitsSigned(Signed(x, w) + Signed(y, w), w)]
        ELSE IF op \in SubOpcodes
        THEN [value |-> (y - x + m) % m, carry |-> IF y < x THEN 1 ELSE 0,
              overflow |-> ~FitsSigned(Signed(y, w) - Signed(x, w), w)]
        ELSE IF op \in NegOpcodes
        THEN [value |-> (m - y) % m, carry |-> IF y # 0 THEN 1 ELSE 0,
              overflow |-> ~FitsSigned(0 - Signed(y, w), w)]
        ELSE IF op = BranchMul32
        THEN [value |-> (x * y) % m, carry |-> 0,
              overflow |-> ~FitsSigned(Signed(x, w) * Signed(y, w), w)]
        ELSE [value |-> BitAnd(x, y), carry |-> 0, overflow |-> FALSE]

CondHolds(cond, r) ==
    IF cond = "Overflow" THEN r.overflow
    ELSE IF cond = "Zero" THEN r.value = 0
    ELSE r.value # 0

\* registers an emitted instruction names
InsRegs(i) ==
    ({i.src, i.dst} \cup {i.args[n] : n \in 1..Len(i.args)}) \cap GPRs

CodeRegs == UNION {InsRegs(code[n]) : n \in 1..Len(code)}

\* the register file when the unit's code is entered: any words of the
\* checked operation's width in the registers the code names
Load ==
    /\ phase = "done"
    /\ rtstate = "idle"
    /\ Len(insts) = 1
    /\ \E f \in [CodeRegs -> 0..(Pow2(WidthOf(insts[1].checkKind)) - 1)] :
        regs' = [r \in GPRs |-> IF r \in CodeRegs THEN f[r] ELSE 0]
    /\ pre' = regs'
    /\ rtpc' = 1
    /\ rtstate' = "running"
    /\ UNCHANGED <<stack, flags, exits>>
    /\ UNCHANGED cgVars
    /\ UNCHANGED qVars

\* the hidden branch at rtpc: the arithmetic, then the jump if args[0] holds
ExecBranch ==
    /\ rtstate = "running"
    /\ code[rtpc].k \in Opcodes
    /\ LET i == code[rtpc]
           n == Len(i.args)
           x == regs[At(i.args, 1)]
           y == IF n = 2 THEN regs[At(i.args, 1)] ELSE regs[At(i.args, 2)]
           dst == At(i.args, n - 1)
           r == BranchResult(i.k, x, y)
       IN
        /\ regs' = IF i.k = BranchTest32 THEN regs ELSE [regs EXCEPT ![dst] = r.value]
        /\ flags' = [carry |-> r.carry, overflow |-> r.overflow, zero |-> r.value = 0]
        /\ IF CondHolds(At(i.args, 0), r)
           THEN /\ Len(links[i.jump]) > 0
                /\ rtpc' = links[i.jump][Len(links[i.jump])]
                /\ rtstate' = "running"
           ELSE /\ rtpc' = rtpc + 1
                /\ rtstate' = IF rtpc + 1 > hotEnd THEN "fallthrough" ELSE "running"
    /\ UNCHANGED <<pre, stack, exits>>
    /\ UNCHANGED cgVars
    /\ UNCHANGED qVars

\* one instruction of a recovery stub
ExecUndo ==
    /\ rtstate = "running"
    /\ code[rtpc].k \notin Opcodes \cup {"RunGenerator"}
    /\ LET i == code[rtpc]
           m == Pow2(InsWidth(i.k))
       IN
        /\ regs' =
            IF i.k \in {"Sub32", "Sub64"}
            THEN [regs EXCEPT ![i.dst] = (regs[i.dst] - regs[i.src] + m) % m]
            ELSE IF i.k \in {"Add32", "Add64"}
            THEN [regs EXCEPT ![i.dst] = (regs[i.dst] + regs[i.src]) % m]
            ELSE IF i.k \in {"Neg32", "Neg64"}
            THEN [regs EXCEPT ![i.dst] = (m - regs[i.dst]) % m]
            ELSE IF i.k = "SetCarry"
            THEN [regs EXCEPT ![i.dst] = flags.carry]
            ELSE IF i.k \in {"Lshift32", "Lshift64"}
            THEN [regs EXCEPT ![i.dst] = (regs[i.dst] * Pow2(ShiftAmount(i.imm))) % m]
            ELSE IF i.k \in {"Urshift32", "Urshift64"}
            THEN [regs EXCEPT ![i.dst] = (regs[i.dst] % m) \div Pow2(ShiftAmount(i.imm))]
            ELSE IF i.k \in {"Rshift32", "Rshift64"}
            THEN [regs EXCEPT ![i.dst] =
                    ArithmeticShiftRight(regs[i.dst] % m, ShiftAmount(i.imm), InsWidth(i.k))]
            ELSE IF i.k \in {"Or32", "Or64"}
            THEN [regs EXCEPT ![i.dst] = BitOr(regs[i.dst], regs[i.src]) % m]
            ELSE IF i.k = "PopToRestore"
            THEN [regs EXCEPT ![i.dst] = stack[Len(stack)]]
            ELSE regs
        /\ stack' =
            IF i.k = "PushToSave" THEN Append(stack, regs[i.src])
            ELSE IF i.k = "PopToRestore" THEN SubSeq(stack, 1, Len(stack) - 1)
            ELSE stack
    /\ rtpc' = rtpc + 1
    /\ UNCHANGED <<pre, flags, rtstate, exits>>
    /\ UNCHANGED cgVars
    /\ UNCHANGED qVars

\* the recovery generator's code is entered: it sees the current registers
ExecGenerator ==
    /\ rtstate = "running"
    /\ code[rtpc].k = "RunGenerator"
    /\ exits' = Append(exits, [value |-> code[rtpc].jump, reps |-> code[rtpc].reps,
                               regs |-> regs, at |-> rtpc])
    /\ rtstate' = "exited"
    /\ UNCHANGED <<regs, pre, stack, flags, rtpc>>
    /\ UNCHANGED cgVars
    /\ UNCHANGED qVars

GenerateOne == \E inst \in CheckedInsts : GenerateInst(inst, 1)

NextRun ==
    \/ GenerateOne \/ EndHotPath \/ RunLatePath \/ FinishUnit
    \/ Load \/ ExecBranch \/ ExecUndo \/ ExecGenerator

SpecRun == Init /\ [][NextRun]_vars

(***************************************************************************)
(* Properties of code generation (Spec)                                    *)
(***************************************************************************)
\* positions of the code buffer holding the generator call of value j
GeneratorCalls(j) ==
    {n \in 1..Len(code) : code[n].k = "RunGenerator" /\ code[n].jump = j}

\* positions of the code buffer holding hidden branches
HotPositions == {n \in 1..Len(code) : code[n].k \in Opcodes}

\* C1: one call of generate, for any checked instruction and opcode, emits
\* the hidden branch, appends exactly one late path to the list and returns
\* the unset jump, never the jump the hidden branch produced
C1_GenerateContract ==
    [][insts' # insts =>
        LET inst == insts'[Len(insts')]
            fail == code'[Len(code')].jump
        IN  /\ Len(code') = Len(code) + 1
            /\ SubSeq(code', 1, Len(code)) = code
            /\ code'[Len(code')].k = inst.checkKind
            /\ code'[Len(code')].args = SubSeq(inst.args, 2, 1 + inst.numCheckArgs)
            /\ Len(latePaths') = Len(latePaths) + 1
            /\ SubSeq(latePaths', 1, Len(latePaths)) = latePaths
            /\ latePaths'[Len(latePaths')].fail = fail
            /\ fail # 0
            /\ Len(returned') = Len(returned) + 1
            /\ returned'[Len(returned')] = 0
            /\ returned'[Len(returned')] # fail]_vars

W_C1 ==
    /\ Len(insts) = 2
    /\ insts[1].checkKind = BranchAdd64
    /\ insts[2].checkKind = BranchTest32
    /\ returned = <<0, 0>>
    /\ Len(latePaths) = 2

\* C2: no failure jump is linked while the hot path is emitted, and once the
\* late paths have run every checked instruction's failure jump has been
\* linked exactly once, to a location after all hot-path code
C2_FailureEdgesBound ==
    /\ phase = "hot" => \A j \in 1..Len(links) : links[j] = << >>
    /\ phase = "done" =>
        /\ Len(links) = Len(insts)
        /\ \A j \in 1..Len(insts) :
            /\ Len(links[j]) = 1
            /\ links[j][1] > hotEnd
            /\ links[j][1] <= Len(code)
            /\ \A n \in HotPositions : n < links[j][1]

W_C2 ==
    /\ phase = "done"
    /\ Len(insts) = 2
    /\ Len(links[1]) = 1
    /\ Len(links[2]) = 1

\* C3: late paths run in the order generate appended them, each exactly
\* once: the stub of an earlier checked instruction precedes the stub of a
\* later one, and all stubs follow the last hot-path instruction
C3_LatePathOrder ==
    phase \in {"late", "done"} =>
        /\ \A j \in 1..Len(insts) :
            /\ Cardinality(GeneratorCalls(j)) = (IF j < lateNext THEN 1 ELSE 0)
            /\ Len(links[j]) = (IF j < lateNext THEN 1 ELSE 0)
            /\ \A n \in GeneratorCalls(j) : n > hotEnd /\ links[j][1] <= n
        /\ \A x, y \in 1..Len(insts) :
            (x < y /\ y < lateNext) =>
                /\ links[x][1] < links[y][1]
                /\ \A n \in GeneratorCalls(x) : n < links[y][1]

W_C3 ==
    /\ phase = "done"
    /\ Len(insts) = 2
    /\ insts[1].checkKind # insts[2].checkKind
    /\ GeneratorCalls(1) # {}
    /\ GeneratorCalls(2) # {}

(***************************************************************************)
(* Properties of the recovery stub and of its execution (SpecRun)          *)
(***************************************************************************)
\* the unit's one checked instruction, its hidden branch's register
\* operands (C++ args[1], args[2], args[3]) and its stub
TheInst == insts[1]
Arg1 == TheInst.args[3]
Arg2 == TheInst.args[4]
Arg3 == TheInst.args[5]
Stub == SubSeq(code, hotEnd + 1, Len(code))
StubKinds == [n \in 1..Len(Stub) |-> Stub[n].k]
SubKind == IF TheInst.checkKind = BranchAdd32 THEN "Sub32" ELSE "Sub64"
Subtractions == {n \in 1..Len(Stub) : Stub[n].k \in {"Sub32", "Sub64"}}

\* the late path of the instruction has run to its end
StubEmitted == Len(insts) = 1 /\ phase \in {"late", "done"} /\ lateNext > 1

\* execution took the failure jump and reached the recovery generator
Exited == rtstate = "exited"

\* C4: a late path whose undo does not abort first links the failure jump to
\* the current location, then emits the undo code, then runs the recovery
\* generator exactly once with the reps computed by generate; no undo code
\* follows the generator
C4_LatePathStepOrder ==
    /\ StubEmitted =>
        /\ links[1] = << hotEnd + 1 >>
        /\ GeneratorCalls(1) = {Len(code)}
        /\ code[Len(code)].reps = repsImpl(TheInst)
        /\ Len(code[Len(code)].reps) = Len(TheInst.args) - TheInst.numCheckArgs - 1
        /\ \A n \in 1..(Len(Stub) - 1) : Stub[n].k \notin Opcodes \cup {"RunGenerator"}
        /\ Stub[Len(Stub)].k = "RunGenerator"
    /\ Exited =>
        /\ Len(exits) = 1
        /\ exits[1].at = Len(code)
        /\ exits[1].value = 1
        /\ exits[1].reps = repsImpl(TheInst)

W_C4 ==
    /\ Exited
    /\ Len(Stub) = 7
    /\ Len(exits[1].reps) = 1
    /\ exits[1].reps[1].kind = "Register"

\* C5: after a checked subtract of the subtrahend b from a destination
\* holding a (distinct registers), the undo leaves the destination equal to
\* a, for all a and b, whether or not the subtraction overflowed
C5_SubUndoRestores ==
    (Exited /\ TheInst.checkKind \in SubOpcodes /\ Arg1 # Arg2) =>
        /\ regs[Arg2] = pre[Arg2]
        /\ regs[Arg1] = pre[Arg1]

W_C5 ==
    /\ Exited
    /\ TheInst.checkKind = BranchSub64
    /\ Arg1 # Arg2
    /\ flags.overflow
    /\ pre[Arg1] # 0
    /\ regs[Arg2] = pre[Arg2]

\* C6: for a self-aliased checked add (every operand the one register
\* holding a), the carry sequence applied to the wrapped a + a and its carry
\* flag leaves the register equal to a
C6_SelfAliasedAddRestores ==
    (Exited /\ TheInst.checkKind \in AddOpcodes
        /\ \A n \in 3..(1 + TheInst.numCheckArgs) : TheInst.args[n] = Arg1) =>
        regs[Arg1] = pre[Arg1]

W_C6 ==
    /\ Exited
    /\ TheInst.checkKind = BranchAdd32
    /\ TheInst.numCheckArgs = 4
    /\ Arg1 = Arg2 /\ Arg2 = Arg3
    /\ flags.carry = 1
    /\ pre[Arg1] = Pow2(Bits32) - 1
    /\ regs[Arg1] = pre[Arg1]

\* C7: for a three-operand checked add in which exactly one source is the
\* destination register, the undo subtracts the other source from the
\* destination, which then holds the value it held before the add
C7_OneSourceAliasedAddRestores ==
    (StubEmitted /\ TheInst.checkKind \in AddOpcodes /\ TheInst.numCheckArgs = 4
        /\ (Arg1 = Arg3) # (Arg2 = Arg3)) =>
        /\ Len(Stub) = 2
        /\ Stub[1] = Ins(SubKind, IF Arg1 = Arg3 THEN Arg2 ELSE Arg1, Arg3, 0)
        /\ Exited => regs[Arg3] = pre[Arg3]

W_C7 ==
    /\ Exited
    /\ TheInst.checkKind = BranchAdd64
    /\ TheInst.numCheckArgs = 4
    /\ Arg1 # Arg3
    /\ Arg2 = Arg3
    /\ flags.overflow
    /\ pre[Arg1] # 0
    /\ regs[Arg3] = pre[Arg3]

\* C8: for a two-operand checked add with distinct source and destination,
\* the stub is one subtraction of the source from the destination followed
\* by one call of the recovery generator; the destination is restored and
\* the source unchanged
C8_TwoOperandAddRestores ==
    (StubEmitted /\ TheInst.checkKind \in AddOpcodes /\ TheInst.numCheckArgs = 3
        /\ Arg1 # Arg2) =>
        /\ Cardinality(Subtractions) = 1
        /\ StubKinds = << SubKind, "RunGenerator" >>
        /\ Stub[1].src = Arg1
        /\ Stub[1].dst = Arg2
        /\ Exited =>
            /\ regs[Arg2] = pre[Arg2]
            /\ regs[Arg1] = pre[Arg1]
            /\ Len(exits) = 1

W_C8 ==
    /\ Exited
    /\ TheInst.checkKind = BranchAdd32
    /\ TheInst.numCheckArgs = 3
    /\ Arg1 # Arg2
    /\ flags.overflow
    /\ regs[Arg2] = pre[Arg2]
    /\ Len(exits) = 1

\* C9: for a checked add whose sources and destination are all one register
\* the stub is the carry sequence and holds no register-to-register
\* subtraction
C9_SelfAliasedAddStub ==
    (StubEmitted /\ TheInst.checkKind \in AddOpcodes
        /\ \A n \in 3..(1 + TheInst.numCheckArgs) : TheInst.args[n] = Arg1) =>
        /\ Subtractions = {}
        /\ StubKinds =
            IF TheInst.checkKind = BranchAdd32
            THEN << "PushToSave", "SetCarry", "Lshift32", "Urshift32", "Or32",
                    "PopToRestore", "RunGenerator" >>
            ELSE << "PushToSave", "SetCarry", "Lshift64", "Urshift64", "Or64",
                    "PopToRestore", "RunGenerator" >>

W_C9 ==
    /\ StubEmitted
    /\ phase = "done"
    /\ TheInst.checkKind = BranchAdd64
    /\ TheInst.numCheckArgs = 3
    /\ Arg1 = Arg2
    /\ Len(Stub) = 7

\* C10: after a checked negate of a destination holding a, for every a but
\* the most negative value, negating again leaves the destination equal to a
C10_NegUndoRestores ==
    (Exited /\ TheInst.checkKind \in NegOpcodes
        /\ pre[Arg1] # MinValue(WidthOf(TheInst.checkKind))) =>
        regs[Arg1] = pre[Arg1]

W_C10 ==
    /\ Exited
    /\ TheInst.checkKind = BranchNeg64
    /\ pre[Arg1] = 1
    /\ regs[Arg1] = 1
    /\ ~flags.overflow

\* the opcodes the undo switch has a case for
UndoOpcodes == {BranchAdd32, BranchAdd64, BranchSub32, BranchSub64,
                BranchNeg32, BranchNeg64}

\* C11: for a hidden-branch opcode outside UndoOpcodes (BranchMul32,
\* BranchTest32) the stub holds no undo instruction and changes no register:
\* it links the failure jump and runs the recovery generator, nothing else
C11_DefaultCaseNoUndo ==
    (StubEmitted /\ TheInst.checkKind \notin UndoOpcodes) =>
        /\ links[1] = << hotEnd + 1 >>
        /\ StubKinds = << "RunGenerator" >>
        /\ Exited =>
            regs = IF TheInst.checkKind = BranchTest32 THEN pre
                   ELSE [pre EXCEPT ![Arg3] = (pre[Arg1] * pre[Arg2]) % Pow2(Bits32)]

W_C11 ==
    /\ Exited
    /\ TheInst.checkKind = BranchMul32
    /\ flags.overflow
    /\ Arg1 # Arg3 /\ Arg2 # Arg3
    /\ regs[Arg1] = pre[Arg1]
    /\ Len(Stub) = 1

(***************************************************************************)
(* Properties of the platform switch (Spec)                                *)
(***************************************************************************)
\* C12: on a target that is not 64-bit the late path of a 64-bit opcode ends
\* in the fatal error, having emitted no undo instruction and not having run
\* the recovery generator; on a 64-bit target the fatal error is never reached
C12_Abort64OnNon64 ==
    /\ is64Bit => phase # "crashed"
    /\ \A j \in 1..Len(latePaths) :
        (j < lateNext /\ ~is64Bit /\ latePaths[j].checkKind \in Opcodes64) =>
            /\ phase = "crashed"
            /\ j = lateNext - 1
            /\ GeneratorCalls(latePaths[j].value) = {}
            /\ links[latePaths[j].fail] = << Len(code) + 1 >>

W_C12 ==
    /\ phase = "crashed"
    /\ ~is64Bit
    /\ lateNext = 3
    /\ latePaths[1].checkKind = BranchSub32
    /\ latePaths[2].checkKind = BranchSub64
    /\ Cardinality(GeneratorCalls(1)) = 1
    /\ GeneratorCalls(2) = {}

(***************************************************************************)
(* Queries of a CheckSpecial: isValid, admitsStack,                        *)
(* admitsExtendedOffsetAddr, forEachArg (SpecQuery)                        *)
(***************************************************************************)
\* most children the originating B3 value of a queried instruction has
MaxChildren == 3
\* scaled width of the unsigned operand counts
UnsignedBits == 16

Check == "Check"
CheckAdd == "CheckAdd"
CheckSub == "CheckSub"
CheckMul == "CheckMul"
CheckKinds == {Check, CheckAdd, CheckSub, CheckMul}
\* the B3 opcodes an originating value may have; Add is not a check
B3Kinds == CheckKinds \cup {"Add"}

\* RoleMode of the stackmap operands
StackmapRoles == {"SameAsRep", "ForceLateUseUnlessRecoverable", "ForceLateUse"}

\* numB3Args returning 2 for a plain Check
numB3Args_CheckTwo(kind) ==
    IF kind \in {CheckAdd, CheckSub, CheckMul, Check} THEN 2 ELSE 0

\* unsigned numB3Args(Kind): 2 for CheckAdd/CheckSub/CheckMul, 1 for Check
numB3Args(kind) ==
    IF kind \in {CheckAdd, CheckSub, CheckMul} THEN 2
    ELSE IF kind = Check THEN 1
    ELSE 0

\* default: RELEASE_ASSERT_NOT_REACHED() of numB3Args
numB3ArgsCrashes(kind) == kind \notin {CheckAdd, CheckSub, CheckMul, Check}

\* a - b on unsigned operands
UnsignedSub(a, b) == (a - b + Pow2(UnsignedBits)) % Pow2(UnsignedBits)

\* CheckSpecial::isValid(inst): validForm is hiddenBranch(inst).isValidForm(),
\* validImpl is isValidImpl(numB3Args(inst), m_numCheckArgs + 1, inst); &&
\* evaluates left to right and stops at the first false
isValid(inst, origin, validForm, validImpl) ==
    IF ~validForm THEN [crashed |-> FALSE, value |-> FALSE]
    ELSE IF numB3ArgsCrashes(origin.kind) THEN [crashed |-> TRUE, value |-> FALSE]
    ELSE IF ~validImpl THEN [crashed |-> FALSE, value |-> FALSE]
    ELSE [crashed |-> FALSE,
          value |-> UnsignedSub(UnsignedSub(Len(inst.args), inst.numCheckArgs), 1)
                    = UnsignedSub(origin.numChildren, numB3Args(origin.kind))]

\* CheckSpecial::admitsStack(inst, argIndex): branchAdmits is
\* hiddenBranch(inst).admitsStack(argIndex - 1), implAdmits is admitsStackImpl
admitsStack(inst, origin, argIndex, branchAdmits, implAdmits) ==
    IF argIndex >= 1 /\ argIndex < 1 + inst.numCheckArgs
    THEN [crashed |-> FALSE, value |-> branchAdmits]
    ELSE IF numB3ArgsCrashes(origin.kind) THEN [crashed |-> TRUE, value |-> FALSE]
    ELSE [crashed |-> FALSE, value |-> implAdmits]

\* admitsExtendedOffsetAddr without its early return
admitsExtendedOffsetAddr_NoGuard(inst, origin, argIndex, branchAdmits, implAdmits) ==
    admitsStack(inst, origin, argIndex, branchAdmits, implAdmits)

\* CheckSpecial::admitsExtendedOffsetAddr(inst, argIndex)
admitsExtendedOffsetAddr(inst, origin, argIndex, branchAdmits, implAdmits) ==
    IF argIndex >= 1 /\ argIndex < 1 + inst.numCheckArgs
    THEN [crashed |-> FALSE, value |-> FALSE]
    ELSE admitsStack(inst, origin, argIndex, branchAdmits, implAdmits)

\* roles of the hidden branch's operands, as hidden.forEachArg reports them
HiddenArgRoles(opcode, numCheckArgs) ==
    IF opcode \in AddOpcodes \cup SubOpcodes /\ numCheckArgs = 3
    THEN << "Use", "Use", "UseZDef" >>
    ELSE IF opcode \in NegOpcodes THEN << "Use", "UseZDef" >>
    ELSE IF opcode = BranchTest32 THEN << "Use", "Use", "Use" >>
    ELSE << "Use", "Use", "Use", "ZDef" >>

\* Arg::isAnyDef(role)
isAnyDef(role) == role \in {"Def", "ZDef", "UseDef", "UseZDef"}

\* forEachArg treating the subtract branches as recoverable too
forEachArg_SubRecoverable(inst, origin, stackmapRole) ==
    LET hidden == hiddenBranch(inst)
        roles == HiddenArgRoles(hidden.kind, inst.numCheckArgs)
        width == IF hidden.kind \in Opcodes64 THEN "Width64" ELSE "Width32"
        defs == {i \in 1..Len(roles) : isAnyDef(roles[i]) /\ roles[i] # "Scratch"}
    IN  [crashed |-> numB3ArgsCrashes(origin.kind),
         callbacks |-> [i \in 1..inst.numCheckArgs |->
                            [arg |-> 1 + (i - 1), role |-> roles[i], width |-> width]],
         numIgnoredB3Args |-> numB3Args(origin.kind),
         numIgnoredAirArgs |-> inst.numCheckArgs + 1,
         role |-> stackmapRole,
         firstRecoverableIndex |->
            IF hidden.kind \in AddOpcodes \cup SubOpcodes THEN << 1 >> ELSE << >>,
         optionalDefArgWidth |-> IF defs = {} THEN << >> ELSE << width >>]

\* CheckSpecial::forEachArg(inst, callback): the callbacks for the hidden
\* branch's operands and the arguments handed to forEachArgImpl; an optional
\* is a sequence of at most one element
forEachArg(inst, origin, stackmapRole) ==
    LET hidden == hiddenBranch(inst)
        roles == HiddenArgRoles(hidden.kind, inst.numCheckArgs)
        width == IF hidden.kind \in Opcodes64 THEN "Width64" ELSE "Width32"
        defs == {i \in 1..Len(roles) : isAnyDef(roles[i]) /\ roles[i] # "Scratch"}
    IN  [crashed |-> numB3ArgsCrashes(origin.kind),
         callbacks |-> [i \in 1..inst.numCheckArgs |->
                            [arg |-> 1 + (i - 1), role |-> roles[i], width |-> width]],
         numIgnoredB3Args |-> numB3Args(origin.kind),
         numIgnoredAirArgs |-> inst.numCheckArgs + 1,
         role |-> stackmapRole,
         firstRecoverableIndex |->
            IF hidden.kind = BranchAdd32 \/ hidden.kind = BranchAdd64 THEN << 1 >> ELSE << >>,
         optionalDefArgWidth |-> IF defs = {} THEN << >> ELSE << width >>]

\* the originating values of a queried instruction
Origins == [kind : B3Kinds, numChildren : 0..MaxChildren]

\* the instructions queried: every shape and every list of extra operands
QueryInsts == {i \in CheckedInsts : i.args[2] = "Overflow"}

\* the queries made of a CheckSpecial: the instruction, its originating
\* value, and the answers of the hidden branch and of the stackmap policy
IsValidInputs ==
    {[fn |-> "isValid", inst |-> inst, origin |-> origin,
      validForm |-> validForm, validImpl |-> validImpl] :
        inst \in QueryInsts, origin \in Origins,
        validForm \in BOOLEAN, validImpl \in BOOLEAN}

AdmitsInputs ==
    UNION {{[fn |-> "admits", inst |-> inst,
             origin |-> [kind |-> kind, numChildren |-> numB3Args(kind)],
             argIndex |-> argIndex, branchAdmits |-> branchAdmits,
             implAdmits |-> implAdmits] :
                kind \in B3Kinds, argIndex \in 0..(Len(inst.args) - 1),
                branchAdmits \in BOOLEAN, implAdmits \in BOOLEAN} :
           inst \in QueryInsts}

ForEachArgInputs ==
    {[fn |-> "forEachArg", inst |-> inst,
      origin |-> [kind |-> kind, numChildren |-> numB3Args(kind)],
      stackmapRole |-> stackmapRole] :
        inst \in QueryInsts, kind \in B3Kinds, stackmapRole \in StackmapRoles}

\* a query is about to be made of a CheckSpecial; no unit is being generated
InitQuery ==
    /\ is64Bit \in BOOLEAN
    /\ insts = << >>
    /\ issued = << >>
    /\ code = << >>
    /\ latePaths = << >>
    /\ links = << >>
    /\ returned = << >>
    /\ phase = "hot"
    /\ hotEnd = 0
    /\ lateNext = 1
    /\ IdleRun
    /\ call \in IsValidInputs \cup AdmitsInputs \cup ForEachArgInputs
    /\ result = [fn |-> "none"]
    /\ pool = << >>
    /\ requests = << >>

IsValidCall ==
    /\ call.fn = "isValid"
    /\ result.fn = "none"
    /\ result' = [fn |-> "isValid",
                  isValid |-> isValid(call.inst, call.origin, call.validForm,
                                      call.validImpl)]
    /\ UNCHANGED <<call, pool, requests>>
    /\ UNCHANGED cgVars
    /\ UNCHANGED rtVars

AdmitsCall ==
    /\ call.fn = "admits"
    /\ result.fn = "none"
    /\ result' = [fn |-> "admits",
                  admitsStack |->
                    admitsStack(call.inst, call.origin, call.argIndex,
                                call.branchAdmits, call.implAdmits),
                  admitsExtendedOffsetAddr |->
                    admitsExtendedOffsetAddr(call.inst, call.origin, call.argIndex,
                                             call.branchAdmits, call.implAdmits)]
    /\ UNCHANGED <<call, pool, requests>>
    /\ UNCHANGED cgVars
    /\ UNCHANGED rtVars

ForEachArgCall ==
    /\ call.fn = "forEachArg"
    /\ result.fn = "none"
    /\ result' = [fn |-> "forEachArg",
                  forEachArg |-> forEachArg(call.inst, call.origin, call.stackmapRole)]
    /\ UNCHANGED <<call, pool, requests>>
    /\ UNCHANGED cgVars
    /\ UNCHANGED rtVars

NextQuery == IsValidCall \/ AdmitsCall \/ ForEachArgCall

SpecQuery == InitQuery /\ [][NextQuery]_vars

\* C13: isValid returns true exactly when the hidden branch is a valid form,
\* the stackmap policy accepts the extra operands, and the operand count less
\* m_numCheckArgs less 1 equals the origin's child count less 1 (Check) or
\* 2 (CheckAdd, CheckSub, CheckMul); otherwise it returns false
C13_IsValid ==
    (result.fn = "isValid" /\ call.origin.kind \in CheckKinds) =>
        /\ ~result.isValid.crashed
        /\ result.isValid.value =
            (/\ call.validForm
             /\ call.validImpl
             /\ Len(call.inst.args) - call.inst.numCheckArgs - 1 =
                    call.origin.numChildren
                    - (IF call.origin.kind = Check THEN 1 ELSE 2))

W_C13 ==
    /\ result.fn = "isValid"
    /\ call.origin.kind = Check
    /\ call.origin.numChildren = 2
    /\ call.inst.checkKind = BranchTest32
    /\ result.isValid.value

\* C14: admitsExtendedOffsetAddr(i) is false for 1 <= i < 1 + m_numCheckArgs,
\* even where admitsStack(i) is true, and equals admitsStack(i) for every
\* other index
C14_ExtendedOffsetAddr ==
    (result.fn = "admits" /\ call.origin.kind \in CheckKinds) =>
        /\ ~result.admitsExtendedOffsetAddr.crashed
        /\ IF 1 <= call.argIndex /\ call.argIndex < 1 + call.inst.numCheckArgs
           THEN /\ result.admitsExtendedOffsetAddr.value = FALSE
                /\ result.admitsStack.value = call.branchAdmits
           ELSE /\ result.admitsExtendedOffsetAddr.value = result.admitsStack.value
                /\ result.admitsStack.value = call.implAdmits

W_C14 ==
    /\ result.fn = "admits"
    /\ call.inst.checkKind = BranchTest32
    /\ call.argIndex = call.inst.numCheckArgs
    /\ result.admitsStack.value
    /\ ~result.admitsExtendedOffsetAddr.value

\* C15: forEachArg hands a recoverable operand index to the stackmap policy
\* if and only if the hidden branch is BranchAdd32 or BranchAdd64
C15_RecoverableOnlyForAdd ==
    (result.fn = "forEachArg" /\ call.origin.kind \in CheckKinds) =>
        /\ ~result.forEachArg.crashed
        /\ (result.forEachArg.firstRecoverableIndex # << >>)
            <=> (call.inst.checkKind \in {BranchAdd32, BranchAdd64})
        /\ call.inst.checkKind \in {BranchAdd32, BranchAdd64}
            => result.forEachArg.firstRecoverableIndex = << 1 >>

W_C15 ==
    /\ result.fn = "forEachArg"
    /\ call.inst.checkKind = BranchSub32
    /\ call.origin.kind = CheckSub
    /\ result.forEachArg.firstRecoverableIndex = << >>
    /\ Len(result.forEachArg.callbacks) = 3

(***************************************************************************)
(* An instruction changed or discarded between generate and its late path  *)
(* (SpecMut)                                                               *)
(***************************************************************************)
\* other locations for the operands of an instruction
Reassigned(args) ==
    [n \in 1..Len(args) |->
        IF args[n] = "r0" THEN "r1"
        ELSE IF args[n] = "r1" THEN "r0"
        ELSE IF args[n] = "r2" THEN "stk0"
        ELSE IF args[n] = "stk0" THEN "r2"
        ELSE args[n]]

\* the operand slots of a generated instruction are rewritten before its
\* late path runs
ChangeInst ==
    /\ phase \in {"hot", "late"}
    /\ \E j \in 1..Len(insts) :
        /\ j >= lateNext
        /\ insts[j] = issued[j]
        /\ insts' = [insts EXCEPT ![j].args = Reassigned(@)]
    /\ UNCHANGED <<is64Bit, issued, code, latePaths, links, returned, phase, hotEnd,
                   lateNext>>
    /\ UNCHANGED rtVars
    /\ UNCHANGED qVars

\* a generated instruction is discarded before its late path runs
DiscardInst ==
    /\ phase \in {"hot", "late"}
    /\ \E j \in 1..Len(insts) :
        /\ j >= lateNext
        /\ insts[j] = issued[j]
        /\ insts' = [insts EXCEPT ![j].args = << >>]
    /\ UNCHANGED <<is64Bit, issued, code, latePaths, links, returned, phase, hotEnd,
                   lateNext>>
    /\ UNCHANGED rtVars
    /\ UNCHANGED qVars

NextMut ==
    \/ GenerateOne \/ ChangeInst \/ DiscardInst
    \/ EndHotPath \/ RunLatePath \/ FinishUnit

SpecMut == Init /\ [][NextMut]_vars

\* C16: the undo code of a stub and the reps handed to the recovery
\* generator are those of the instruction as generate saw it, whatever has
\* been done to the instruction's operand slots since
C16_StubUsesSnapshot ==
    (Len(issued) = 1 /\ phase \in {"late", "done"} /\ lateNext > 1) =>
        /\ SubSeq(Stub, 1, Len(Stub) - 1) =
            UndoCode(issued[1].checkKind, issued[1].numCheckArgs,
                     SubSeq(issued[1].args, 2, 1 + issued[1].numCheckArgs), is64Bit)
        /\ Stub[Len(Stub)] = RunGeneratorIns(1, repsImpl(issued[1]))

W_C16 ==
    /\ phase = "done"
    /\ Len(issued) = 1
    /\ issued[1].checkKind = BranchAdd64
    /\ issued[1].args[3] # issued[1].args[4]
    /\ insts[1].args = Reassigned(issued[1].args)
    /\ insts[1].args # issued[1].args
    /\ Len(Stub) = 2
    /\ Stub[1].src = issued[1].args[3]
    /\ Len(Stub[2].reps) = 1
    /\ Stub[2].reps[1].loc = issued[1].args[Len(issued[1].args)]

(***************************************************************************)
(* The pool of CheckSpecials (SpecPool)                                    *)
(***************************************************************************)
\* number of requests made of the pool
MaxRequests == 3

\* Key with explicit fields
MkKey(kind, numArgs, stackmapRole) ==
    [kind |-> kind, numArgs |-> numArgs, stackmapRole |-> stackmapRole]

\* Key::Key(inst) forgetting the operand count
KeyOfInst_IgnoresArgCount(inst) == MkKey(inst.kind, 0, "SameAsRep")

\* CheckSpecial::Key::Key(const Inst& inst)
KeyOfInst(inst) == MkKey(inst.kind, Len(inst.args), "SameAsRep")

\* CheckSpecial::CheckSpecial(const Key&), through
\* CheckSpecial(kind, numArgs, stackmapRole)
CheckSpecialOf(key) ==
    [checkKind |-> key.kind, stackmapRole |-> key.stackmapRole,
     numCheckArgs |-> key.numArgs]

\* equality of keys: field by field
KeyEq(a, b) ==
    a.kind = b.kind /\ a.numArgs = b.numArgs /\ a.stackmapRole = b.stackmapRole

\* the key a pooled CheckSpecial was made from
KeyOfSpecial(special) ==
    MkKey(special.checkKind, special.numCheckArgs, special.stackmapRole)

\* the pooled instance for a key: the one already made for an equal key, or
\* a new one added to the pool
Ensure(key, specials) ==
    LET found == {n \in 1..Len(specials) : KeyEq(KeyOfSpecial(specials[n]), key)} IN
    IF found # {}
    THEN [pool |-> specials, instance |-> CHOOSE n \in found : TRUE]
    ELSE [pool |-> Append(specials, CheckSpecialOf(key)), instance |-> Len(specials) + 1]

PoolKinds == {BranchAdd32, BranchTest32}
PoolKeys == {MkKey(kind, numArgs, role) :
                kind \in PoolKinds, numArgs \in {3, 4}, role \in StackmapRoles}

\* the branch instructions a CheckSpecial is requested for
PoolInsts ==
    {hiddenBranch(i) : i \in {l \in LoweredInsts : l.checkKind \in PoolKinds}}

\* a request with an explicit (kind, numArgs, stackmapRole)
RequestByKey ==
    /\ Len(requests) < MaxRequests
    /\ \E key \in PoolKeys :
        LET e == Ensure(key, pool) IN
        /\ pool' = e.pool
        /\ requests' = Append(requests,
                              [kind |-> key.kind, numArgs |-> key.numArgs,
                               stackmapRole |-> key.stackmapRole,
                               instance |-> e.instance])
    /\ UNCHANGED <<call, result>>
    /\ UNCHANGED cgVars
    /\ UNCHANGED rtVars

\* a request for the CheckSpecial of a branch instruction
RequestByInst ==
    /\ Len(requests) < MaxRequests
    /\ \E inst \in PoolInsts :
        LET e == Ensure(KeyOfInst(inst), pool) IN
        /\ pool' = e.pool
        /\ requests' = Append(requests,
                              [kind |-> inst.kind, numArgs |-> Len(inst.args),
                               stackmapRole |-> "SameAsRep",
                               instance |-> e.instance])
    /\ UNCHANGED <<call, result>>
    /\ UNCHANGED cgVars
    /\ UNCHANGED rtVars

NextPool == RequestByKey \/ RequestByInst

SpecPool == Init /\ [][NextPool]_vars

\* C17: two requests with the same (kind, numArgs, stackmapRole) get the same
\* pooled instance, requests differing in any of the three get distinct
\* instances, and equality of keys is reflexive, symmetric and transitive
C17_PooledDescriptors ==
    /\ \A i, j \in 1..Len(requests) :
        (requests[i].instance = requests[j].instance)
            <=> (/\ requests[i].kind = requests[j].kind
                 /\ requests[i].numArgs = requests[j].numArgs
                 /\ requests[i].stackmapRole = requests[j].stackmapRole)
    /\ \A a \in PoolKeys : KeyEq(a, a)
    /\ \A a, b \in PoolKeys : KeyEq(a, b) => KeyEq(b, a)
    /\ \A a, b, d \in PoolKeys : (KeyEq(a, b) /\ KeyEq(b, d)) => KeyEq(a, d)

W_C17 ==
    /\ Len(requests) = 3
    /\ requests[1].instance = requests[3].instance
    /\ requests[1].instance # requests[2].instance
    /\ requests[1].kind = requests[2].kind
    /\ requests[1].numArgs # requests[2].numArgs
    /\ requests[1].stackmapRole = requests[2].stackmapRole
    /\ Len(pool) = 2

(***************************************************************************)
(* The steps of the self-aliased add undo (SpecRun)                        *)
(***************************************************************************)
\* every operand of the checked add is the one register Arg1
SelfAliasedAdd ==
    /\ StubEmitted
    /\ TheInst.checkKind \in AddOpcodes
    /\ \A n \in 3..(1 + TheInst.numCheckArgs) : TheInst.args[n] = Arg1

\* execution stands before the n-th instruction of the stub
AtStub(n) == rtstate = "running" /\ rtpc = hotEnd + n

AddWidth == WidthOf(TheInst.checkKind)

\* what the add left in the destination, and the carry out of it
Corrupted == (2 * pre[Arg1]) % Pow2(AddWidth)
CarryOut == IF 2 * pre[Arg1] >= Pow2(AddWidth) THEN 1 ELSE 0

\* the register the stub captures the carry in
CarryReg == Stub[2].dst

\* the register contents between the steps of the carry sequence, for a
\* given outcome of the right shift
CarrySteps(shifted) ==
    /\ AtStub(3) => regs[CarryReg] = CarryOut
    /\ AtStub(4) => regs[CarryReg] = CarryOut * Pow2(AddWidth - 1)
    /\ AtStub(5) => regs[Arg1] = shifted
    /\ AtStub(6) => regs[Arg1] = BitOr(shifted, CarryOut * Pow2(AddWidth - 1))

\* C18 as stated: the carry is captured in a scratch register and shifted
\* left to the sign bit, the corrupted result is shifted right by one bit
\* arithmetically, and the scratch register is ORed into the result
C18_ArithmeticShiftSteps ==
    SelfAliasedAdd => CarrySteps(ArithmeticShiftRight(Corrupted, 1, AddWidth))

\* C18: the carry is captured in a scratch register and shifted left to the
\* sign bit (31 or 63), the corrupted result is shifted right by one bit
\* logically (zero filled), and the scratch register is ORed into the result
C18_LogicalShiftSteps ==
    SelfAliasedAdd =>
        /\ CarryReg \in GPRs \ {Arg1}
        /\ SubSeq(Stub, 2, 5) =
            LET sfx == IF TheInst.checkKind = BranchAdd32 THEN "32" ELSE "64" IN
            << Ins("SetCarry", "", CarryReg, 0),
               Ins("Lshift" \o sfx, "", CarryReg,
                   IF TheInst.checkKind = BranchAdd32 THEN 31 ELSE 63),
               Ins("Urshift" \o sfx, "", Arg1, 1),
               Ins("Or" \o sfx, CarryReg, Arg1, 0) >>
        /\ CarrySteps(Corrupted \div 2)

W_C18 ==
    /\ SelfAliasedAdd
    /\ AtStub(6)
    /\ TheInst.checkKind = BranchAdd64
    /\ CarryOut = 0
    /\ Corrupted >= Pow2(AddWidth - 1)
    /\ regs[Arg1] = pre[Arg1]
    /\ regs[Arg1] # ArithmeticShiftRight(Corrupted, 1, AddWidth)

(***************************************************************************)
(* The negate undo at the most negative value (SpecRun)                    *)
(***************************************************************************)
\* the checked negate ran on the most negative value of its width and the
\* recovery generator was reached
NegatedMinValue ==
    /\ Exited
    /\ TheInst.checkKind \in NegOpcodes
    /\ pre[Arg1] = MinValue(WidthOf(TheInst.checkKind))

\* C19 as stated: after a checked negate of the most negative value, negating
\* the destination again does not restore the original value
C19_NegUndoLosesMinValue ==
    NegatedMinValue => regs[Arg1] # pre[Arg1]

\* C19: the checked negate of the most negative value wraps around to that
\* same value and overflows, and negating the destination again wraps around
\* once more, so the recovery generator sees the original value
C19_NegUndoRestoresMinValue ==
    NegatedMinValue =>
        /\ BranchResult(TheInst.checkKind, pre[Arg1], pre[Arg1]).value = pre[Arg1]
        /\ BranchResult(TheInst.checkKind, pre[Arg1], pre[Arg1]).overflow
        /\ regs[Arg1] = pre[Arg1]
        /\ exits[Len(exits)].regs[Arg1] = pre[Arg1]

W_C19 ==
    /\ NegatedMinValue
    /\ TheInst.checkKind = BranchNeg64
    /\ At(TheInst.args, 1) = "Overflow"
    /\ flags.overflow
    /\ regs[Arg1] = Pow2(Bits64 - 1)
    /\ StubKinds = << "Neg64", "RunGenerator" >>

(***************************************************************************)
(* The default case of the undo switch (Spec)                              *)
(***************************************************************************)
\* the late paths that have run for an opcode the switch has no case for
RanUnrecognised ==
    {j \in 1..Len(latePaths) :
        j < lateNext /\ latePaths[j].checkKind \notin UndoOpcodes}

\* C20 as stated: a late path run for an opcode the undo switch does not
\* recognise ends in the fatal error and does not run the recovery generator
C20_UnrecognisedOpcodeAborts ==
    \A j \in RanUnrecognised :
        /\ phase = "crashed"
        /\ GeneratorCalls(latePaths[j].value) = {}

\* C20: a late path run for an opcode the undo switch does not recognise
\* does not end in the fatal error: it runs the recovery generator once,
\* right where the failure jump is linked, and later late paths still run
C20_UnrecognisedOpcodeContinues ==
    \A j \in RanUnrecognised :
        /\ phase = "crashed" => j < lateNext - 1
        /\ GeneratorCalls(latePaths[j].value) = {links[latePaths[j].fail][1]}
        /\ Len(links[latePaths[j].fail]) = 1

W_C20 ==
    /\ phase = "done"
    /\ ~is64Bit
    /\ lateNext = 3
    /\ RanUnrecognised = {1}
    /\ latePaths[1].checkKind = BranchTest32
    /\ latePaths[2].checkKind = BranchSub32
    /\ Cardinality(GeneratorCalls(1)) = 1
    /\ Cardinality(GeneratorCalls(2)) = 1

(***************************************************************************)
(* The sources of a checked add at the recovery generator (SpecRun)        *)
(***************************************************************************)
\* the registers a checked add reads: both operands of the two-operand
\* form, the first two of the three-operand form
AddSources == {Arg1, Arg2}

\* the three-operand add writes a register that is neither source
AddToFreshDest ==
    TheInst.numCheckArgs = 4 /\ Arg3 \notin AddSources

\* C21: a three-operand checked add whose destination is neither source
\* (the sources equal or not) has a stub with no undo instruction; and on a
\* 64-bit target, under every aliasing pattern of a checked add, each source
\* register holds its value from before the add when the recovery generator
\* is invoked
C21_AddSourcesPreserved ==
    (StubEmitted /\ TheInst.checkKind \in AddOpcodes) =>
        /\ AddToFreshDest => StubKinds = << "RunGenerator" >>
        /\ (Exited /\ is64Bit) =>
            \A r \in AddSources :
                /\ regs[r] = pre[r]
                /\ exits[Len(exits)].regs[r] = pre[r]

W_C21 ==
    /\ Exited
    /\ is64Bit
    /\ TheInst.checkKind = BranchAdd64
    /\ AddToFreshDest
    /\ Arg1 = Arg2
    /\ Len(Stub) = 1
    /\ regs[Arg3] # pre[Arg3]
    /\ pre[Arg1] # 0
    /\ regs[Arg1] = pre[Arg1]

(***************************************************************************)
(* The 32-bit opcodes on a target that is not 64-bit (SpecRun)             *)
(***************************************************************************)
\* the late paths that have run
RanLatePaths == {j \in 1..Len(latePaths) : j < lateNext}

\* where the stub of late path j starts
StubAt(j) == links[latePaths[j].fail][1]

\* C22: on a target that is not 64-bit the late path of BranchAdd32 ends in
\* the fatal error under every aliasing pattern, with the failure jump linked
\* but no undo code emitted and the recovery generator not run; the late paths
\* of BranchSub32 and BranchNeg32 emit their undo (Add32, Neg32) and then run
\* the recovery generator on both targets
C22_Add32AbortsOnNon64 ==
    \A j \in RanLatePaths :
        /\ (~is64Bit /\ latePaths[j].checkKind = BranchAdd32) =>
            /\ phase = "crashed"
            /\ j = lateNext - 1
            /\ links[latePaths[j].fail] = << Len(code) + 1 >>
            /\ GeneratorCalls(latePaths[j].value) = {}
        /\ latePaths[j].checkKind \in {BranchSub32, BranchNeg32} =>
            /\ Len(links[latePaths[j].fail]) = 1
            /\ code[StubAt(j)] =
                IF latePaths[j].checkKind = BranchSub32
                THEN Ins("Add32", latePaths[j].args[2], latePaths[j].args[3], 0)
                ELSE Ins("Neg32", "", latePaths[j].args[2], 0)
            /\ GeneratorCalls(latePaths[j].value) = {StubAt(j) + 1}

W_C22 ==
    /\ phase = "crashed"
    /\ ~is64Bit
    /\ RanLatePaths = {1}
    /\ latePaths[1].checkKind = BranchAdd32
    /\ latePaths[1].numCheckArgs = 4
    /\ latePaths[1].args[2] = latePaths[1].args[3]
    /\ latePaths[1].args[3] = latePaths[1].args[4]
    /\ Len(code) = 1
    /\ links[1] = << 2 >>

(***************************************************************************)
(* The checked subtract of a register from itself (SpecRun)                *)
(***************************************************************************)
\* subtrahend and destination of the checked subtract are one register
SelfAliasedSub ==
    /\ StubEmitted
    /\ TheInst.checkKind \in SubOpcodes
    /\ Arg1 = Arg2

\* the hidden branch has been executed
BranchExecuted == rtstate # "idle" /\ rtpc > 1

\* C23: for a checked subtract whose subtrahend and destination are the same
\* register the undo is the ordinary one, adding the register to itself, and
\* after it the register holds 0, which is the value a from before the
\* subtract only when a is 0; but a - a is 0 without signed overflow for
\* every a, so a branch that tests Overflow never takes its failure jump
C23_SelfAliasedSub ==
    SelfAliasedSub =>
        /\ Stub[1] = Ins(IF TheInst.checkKind = BranchSub32 THEN "Add32" ELSE "Add64",
                         Arg1, Arg1, 0)
        /\ StubKinds[2] = "RunGenerator"
        /\ Len(Stub) = 2
        /\ Exited =>
            /\ regs[Arg1] = 0
            /\ (regs[Arg1] = pre[Arg1]) <=> (pre[Arg1] = 0)
        /\ BranchExecuted =>
            /\ ~flags.overflow
            /\ flags.zero
        /\ At(TheInst.args, 1) = "Overflow" =>
            /\ ~Exited
            /\ BranchExecuted => (rtstate = "fallthrough" /\ regs[Arg1] = 0)

W_C23 ==
    /\ SelfAliasedSub
    /\ Exited
    /\ TheInst.checkKind = BranchSub64
    /\ At(TheInst.args, 1) = "Zero"
    /\ pre[Arg1] = MinValue(Bits64)
    /\ regs[Arg1] = 0
    /\ ~flags.overflow

====
